---------------------------- MODULE Spec2Model ----------------------------
(***************************************************************************)
(* frc-motion-calc: fetch of Zebra MotionWorks telemetry (src/get_data.js), *)
(* the command line entry point (index.js) and the kinematics and stats     *)
(* engine (src/calculate_stats.js).                                         *)
(*                                                                          *)
(* Numbers.  JavaScript numbers are modelled in exact decimal fixed point:  *)
(*   - sample times and timestamps: hundredths of a second (integers);      *)
(*   - a duration after Math.round(t * 10) / 10: tenths of a second;        *)
(*   - coordinates and distances: feet (integers; the sample positions lie  *)
(*     on the line through (0,0) and (3,4), so every Euclidean distance     *)
(*     between two of them is a whole number and Math.sqrt is exact);       *)
(*   - speeds and accelerations after Math.round(v * 100) / 100: a Num in   *)
(*     hundredths of a foot per second (per second);                        *)
(*   - an unrounded quotient: a Ratio, numerator over denominator.          *)
(* Infinity, -Infinity and NaN are values of Num and Ratio, since the code  *)
(* divides by rounded durations that may be 0 and takes Math.max and        *)
(* Math.min of empty lists.  null is the empty tuple and a non-null value v *)
(* the one-element tuple <<v>>.                                             *)
(***************************************************************************)
EXTENDS Integers, Sequences, FiniteSets, TLC

\* ------------------------------------------------------------- bounds

\* Longest position sequence of the single match of SpecKin.
MaxKinPoints == 5
\* Longest position sequence of a match of SpecEngine.
MaxEnginePoints == 4
\* Most matches in a batch handed to the engine in SpecEngine.
MaxMatches == 2
\* Most match keys the key fetch returns in Spec.
MaxKeys == 3

\* ------------------------------------------------------------ numbers

Null == <<>>
Some(v) == <<v>>

Fin(n) == [k |-> "fin", v |-> n]
PosInf == [k |-> "inf", v |-> 1]
NegInf == [k |-> "inf", v |-> -1]
NaN == [k |-> "nan", v |-> 0]

Ratio(n, d) == [k |-> "fin", v |-> n, d |-> d]
RatioInf(s) == [k |-> "inf", v |-> s, d |-> 1]
RatioNaN == [k |-> "nan", v |-> 0, d |-> 1]

Sign(n) == IF n > 0 THEN 1 ELSE IF n < 0 THEN -1 ELSE 0

\* Math.round(n / d) for integers n and d > 0: the nearest integer, a half
\* rounded towards +Infinity.
MathRound(n, d) == (2 * n + d) \div (2 * d)

\* Math.round(time * 10) / 10 of a time difference in hundredths of a second:
\* the duration in tenths of a second.
Round1(hundredths) == MathRound(hundredths, 10)

\* Math.round(q * 100) / 100 of a quotient q: a Num in hundredths.  Rounding
\* keeps Infinity, -Infinity and NaN.
Round2(q) ==
  IF q.k = "fin"
    THEN Fin(MathRound(100 * q.v * Sign(q.d), q.d * Sign(q.d)))
    ELSE [k |-> q.k, v |-> q.v]

\* Math.sqrt of a perfect square.
Sqrt(n) == CHOOSE r \in 0..n : r * r = n

\* a + b on Num.
Add(a, b) ==
  IF a.k = "nan" \/ b.k = "nan" THEN NaN
  ELSE IF a.k = "inf" /\ b.k = "inf" THEN (IF a.v = b.v THEN a ELSE NaN)
  ELSE IF a.k = "inf" THEN a
  ELSE IF b.k = "inf" THEN b
  ELSE Fin(a.v + b.v)

\* -a on Num.
Neg(a) == [k |-> a.k, v |-> 0 - a.v]

\* a - b on Num.
Sub(a, b) == Add(a, Neg(b))

\* a < b on Num; false when either is NaN.
Less(a, b) ==
  IF a.k = "nan" \/ b.k = "nan" THEN FALSE
  ELSE IF a.k = "inf" THEN a.v < 0 /\ b # a
  ELSE IF b.k = "inf" THEN b.v > 0
  ELSE a.v < b.v

\* n / d for integers n and d, both in the same unit: n/0 is Infinity or
\* -Infinity by the sign of n, and 0/0 is NaN.
DivInt(n, d) ==
  IF d # 0 THEN Ratio(n, d)
  ELSE IF n = 0 THEN RatioNaN
  ELSE RatioInf(Sign(n))

\* a / n for a Num a and an array length n > 0.
DivLen(a, n) == IF a.k = "fin" THEN Ratio(a.v, n) ELSE [k |-> a.k, v |-> a.v, d |-> 1]

\* array.reduce((a, b) => a + b) of a non-empty array of Num, from the left.
RECURSIVE ReduceFrom(_, _, _)
ReduceFrom(acc, xs, i) ==
  IF i > Len(xs) THEN acc ELSE ReduceFrom(Add(acc, xs[i]), xs, i + 1)

ReduceAdd(xs) == ReduceFrom(xs[1], xs, 2)

\* Math.max(...xs): -Infinity for no arguments, NaN when any argument is NaN.
RECURSIVE MaxFrom(_, _, _)
MaxFrom(acc, xs, i) ==
  IF i > Len(xs) THEN acc
  ELSE IF acc.k = "nan" \/ xs[i].k = "nan" THEN NaN
  ELSE MaxFrom(IF Less(acc, xs[i]) THEN xs[i] ELSE acc, xs, i + 1)

MathMax(xs) == MaxFrom(NegInf, xs, 1)

\* Math.min(...xs): Infinity for no arguments, NaN when any argument is NaN.
RECURSIVE MinFrom(_, _, _)
MinFrom(acc, xs, i) ==
  IF i > Len(xs) THEN acc
  ELSE IF acc.k = "nan" \/ xs[i].k = "nan" THEN NaN
  ELSE MinFrom(IF Less(xs[i], acc) THEN xs[i] ELSE acc, xs, i + 1)

MathMin(xs) == MinFrom(PosInf, xs, 1)

\* array.filter(Boolean) of a mapped array whose elements are an object
\* (<<object>>) or undefined (<<>>).
RECURSIVE FilterBoolean(_)
FilterBoolean(xs) ==
  IF xs = <<>> THEN <<>> ELSE Head(xs) \o FilterBoolean(Tail(xs))

\* -------------------------------------------------------- kinematics

\* The truthiness of array[i + 1] (i counted from 1 here): an element exists.
HasNext(array, i) == i + 1 <= Len(array)

\* A variant of DistanceOf that stamps the segment with the later sample's
\* time.
DistanceOfLaterStamp(p1, p2) ==
  [timestamp |-> p2.time,
   time |-> Round1(p2.time - p1.time),
   distance |-> Sqrt((p2.x[1] - p1.x[1]) * (p2.x[1] - p1.x[1])
                     + (p2.y[1] - p1.y[1]) * (p2.y[1] - p1.y[1]))]

\* One distance object of calculateDistances.
DistanceOf(p1, p2) ==
  [timestamp |-> p1.time,
   time |-> Round1(p2.time - p1.time),
   distance |-> Sqrt((p2.x[1] - p1.x[1]) * (p2.x[1] - p1.x[1])
                     + (p2.y[1] - p1.y[1]) * (p2.y[1] - p1.y[1]))]

calculateDistances(_points) ==
  FilterBoolean([i \in 1..Len(_points) |->
    IF HasNext(_points, i)
      THEN Some(DistanceOf(_points[i], _points[i + 1]))
      ELSE Null])

\* A variant of SpeedOf that truncates (Math.floor) instead of rounding.
SpeedOfTruncated(dist) ==
  [timestamp |-> dist.timestamp,
   speed |-> IF dist.time > 0
               THEN Fin((1000 * dist.distance) \div dist.time)
               ELSE Round2(DivInt(10 * dist.distance, dist.time))]

\* One speed object of calculateSpeeds: distance in feet over a duration in
\* tenths of a second is 10 * distance / time feet per second.
SpeedOf(dist) ==
  [timestamp |-> dist.timestamp,
   speed |-> Round2(DivInt(10 * dist.distance, dist.time))]

\* A variant of calculateSpeeds without the look-ahead check: a speed for
\* every distance.
calculateSpeedsNoLookAhead(_distances) ==
  FilterBoolean([i \in 1..Len(_distances) |-> Some(SpeedOf(_distances[i]))])

calculateSpeeds(_distances) ==
  FilterBoolean([i \in 1..Len(_distances) |->
    IF HasNext(_distances, i) THEN Some(SpeedOf(_distances[i])) ELSE Null])

\* One acceleration object of calculateAccelerations.  The difference of two
\* speeds in hundredths is in hundredths: a quotient over 100 in feet per
\* second.
AccelerationOf(s1, s2) ==
  LET acceleration == Sub(s2.speed, s1.speed)
  IN [timestamp |-> s1.timestamp,
      time |-> Round1(s2.timestamp - s1.timestamp),
      acceleration |-> Round2(DivLen(acceleration, 100))]

\* A variant of calculateAccelerations that pairs the last speed with itself.
calculateAccelerationsPadded(_speeds) ==
  FilterBoolean([i \in 1..Len(_speeds) |->
    Some(AccelerationOf(_speeds[i],
                        _speeds[IF HasNext(_speeds, i) THEN i + 1 ELSE i]))])

calculateAccelerations(_speeds) ==
  FilterBoolean([i \in 1..Len(_speeds) |->
    IF HasNext(_speeds, i)
      THEN Some(AccelerationOf(_speeds[i], _speeds[i + 1]))
      ELSE Null])


\* -------------------------------------------------------------- state

VARIABLES
  keysState,       \* getMatches' promise: "pending", "ok" or "failed"
  keys,            \* the match keys getMatches resolved with
  fetch,           \* fetch[i]: getMotionworks for keys[i]: its promise's
                   \*   state ("pending", "resolved" or "rejected") and the
                   \*   res.statusCode it saw (0: no response ended)
  finalData,       \* get_data.js: the module's finalData array
  promise,         \* the promise the exported fetch function returns:
                   \*   "pending", "resolved" or "rejected"
  value,           \* the dataset that promise resolved with
  mainPc,          \* index.js: "waiting", "calculate" (the then callback
                   \*   called calculate) or "error" (the error callback ran)
  data,            \* calculate's argument
  idx,             \* data.forEach: the next match, counted from 1
  enginePc,        \* calculate: "idle", "forEach", "done" or "thrown"
  filteredPoints,  \* the locals of the last forEach callback
  distances,
  speeds,
  accelerations,
  stats,           \* calculate_stats.js: the module's stats object
  charts,          \* the matches a chart view was generated for
  statsFile        \* ./stats.json: null until written

fetchVars == <<keysState, keys, fetch, finalData, promise, value, mainPc>>
engineVars == <<data, idx, enginePc, filteredPoints, distances, speeds,
                accelerations, stats, charts, statsFile>>
vars == <<keysState, keys, fetch, finalData, promise, value, mainPc, data, idx,
          enginePc, filteredPoints, distances, speeds, accelerations, stats,
          charts, statsFile>>

\* let stats = { individual_matches: [] }: the global fields are undefined
\* (null here) until assigned.
StatsInit ==
  [individual_matches |-> <<>>,
   maxSpeed_fps |-> Null, avgMaxSpeed_fps |-> Null, avgSpeed_fps |-> Null,
   maxAccel_fpsps |-> Null, avgMaxAccel_fpsps |-> Null,
   maxBrake_fpsps |-> Null, avgMaxBrake_fpsps |-> Null]

\* The engine before main calls it.
EngineIdle ==
  /\ data = <<>>
  /\ idx = 1
  /\ enginePc = "idle"
  /\ filteredPoints = <<>>
  /\ distances = <<>>
  /\ speeds = <<>>
  /\ accelerations = <<>>
  /\ stats = StatsInit
  /\ charts = <<>>
  /\ statsFile = Null

\* ------------------------------------------------------------- engine

\* speeds.map(s => s.speed) and accelerations.map(a => a.acceleration)
SpeedField(xs) == [i \in 1..Len(xs) |-> xs[i].speed]
AccelerationField(xs) == [i \in 1..Len(xs) |-> xs[i].acceleration]

\* stats.individual_matches.map(m => m.maxSpeed_fps), and so on.
MaxSpeedField(m) == [i \in 1..Len(m) |-> m[i].maxSpeed_fps]
AvgSpeedField(m) == [i \in 1..Len(m) |-> m[i].avgSpeed_fps]
MaxAccelField(m) == [i \in 1..Len(m) |-> m[i].maxAccel_fpsps]
MaxBrakeField(m) == [i \in 1..Len(m) |-> m[i].maxBrake_fpsps]

\* match.points.filter(point => point.x !== null && point.y !== null)
Usable(point) == point.x # Null /\ point.y # Null
FilterPoints(points) == SelectSeq(points, Usable)

\* The object pushed to stats.individual_matches; its avgSpeed_fps reduces the
\* speeds, which throws a TypeError when there are none.  A sum in hundredths
\* over the length is sum / (100 * length) feet per second.
MatchSummary(match, _speeds, _accelerations) ==
  [match |-> match.match,
   team |-> match.team,
   maxSpeed_fps |-> MathMax(SpeedField(_speeds)),
   avgSpeed_fps |->
     Round2(DivLen(ReduceAdd(SpeedField(_speeds)), 100 * Len(_speeds))),
   maxAccel_fpsps |-> MathMax(AccelerationField(_accelerations)),
   maxBrake_fpsps |-> MathMin(AccelerationField(_accelerations))]

\* The sum of a mapped field of stats.individual_matches, divided by
\* stats.individual_matches.length.
Average(values) == DivLen(ReduceAdd(values), Len(values))

\* A variant of GlobalSummary whose maxBrake_fpsps takes Math.max, as the
\* line for maxAccel_fpsps does.
GlobalSummaryBrakeByMax(s) ==
  LET m == s.individual_matches
  IN [s EXCEPT
        !.maxSpeed_fps = Some(MathMax(MaxSpeedField(m))),
        !.avgMaxSpeed_fps = Some(Average(MaxSpeedField(m))),
        !.avgSpeed_fps = Some(Average(AvgSpeedField(m))),
        !.maxAccel_fpsps = Some(MathMax(MaxAccelField(m))),
        !.avgMaxAccel_fpsps = Some(Average(MaxAccelField(m))),
        !.maxBrake_fpsps = Some(MathMax(MaxBrakeField(m))),
        !.avgMaxBrake_fpsps = Some(Average(MaxBrakeField(m)))]

\* The global fields of stats, assigned in this order.
GlobalSummary(s) ==
  LET m == s.individual_matches
  IN [s EXCEPT
        !.maxSpeed_fps = Some(MathMax(MaxSpeedField(m))),
        !.avgMaxSpeed_fps = Some(Average(MaxSpeedField(m))),
        !.avgSpeed_fps = Some(Average(AvgSpeedField(m))),
        !.maxAccel_fpsps = Some(MathMax(MaxAccelField(m))),
        !.avgMaxAccel_fpsps = Some(Average(MaxAccelField(m))),
        !.maxBrake_fpsps = Some(MathMin(MaxBrakeField(m))),
        !.avgMaxBrake_fpsps = Some(Average(MaxBrakeField(m)))]

\* One call of data.forEach's callback, for data[idx].  The three derived
\* sequences are computed first; the summary pushed next throws when there
\* are no speeds, and the exception ends calculate.
ProcessMatch ==
  /\ enginePc = "forEach"
  /\ idx <= Len(data)
  /\ LET match == data[idx]
         fp == FilterPoints(match.points[1])
         ds == calculateDistances(fp)
         ss == calculateSpeeds(ds)
         as == calculateAccelerations(ss)
     IN /\ filteredPoints' = fp
        /\ distances' = ds
        /\ speeds' = ss
        /\ accelerations' = as
        /\ IF ss = <<>>
             THEN /\ enginePc' = "thrown"
                  /\ UNCHANGED <<idx, stats, charts>>
             ELSE /\ stats' = [stats EXCEPT !.individual_matches =
                                 Append(@, MatchSummary(match, ss, as))]
                  /\ charts' = Append(charts, match.match)
                  /\ idx' = idx + 1
                  /\ UNCHANGED enginePc
  /\ UNCHANGED <<data, statsFile>>
  /\ UNCHANGED fetchVars

\* After the forEach: the global fields and fs.writeFileSync('./stats.json').
\* With no match summary, stats.maxSpeed_fps becomes -Infinity and the first
\* reduce throws.
WriteStats ==
  /\ enginePc = "forEach"
  /\ idx > Len(data)
  /\ IF stats.individual_matches = <<>>
       THEN /\ stats' = [stats EXCEPT !.maxSpeed_fps = Some(MathMax(<<>>))]
            /\ enginePc' = "thrown"
            /\ UNCHANGED statsFile
       ELSE /\ stats' = GlobalSummary(stats)
            /\ statsFile' = Some(stats')
            /\ enginePc' = "done"
  /\ UNCHANGED <<data, idx, filteredPoints, distances, speeds, accelerations,
                 charts>>
  /\ UNCHANGED fetchVars

NextEngine == ProcessMatch \/ WriteStats

\* -------------------------------------------------------------- fetch

\* The team number given on the command line.
Record(matchKey, points) == [match |-> matchKey, team |-> 254, points |-> points]

\* A promise settles once: resolve and reject do nothing afterwards.
Settle(p, outcome) == IF p = "pending" THEN outcome ELSE p

\* A variant of IsLastFetch that holds from the first record on.
IsLastFetchAtFirst(_keys, _finalData) == Len(_finalData) >= 1

\* keys.length === finalData.length
IsLastFetch(_keys, _finalData) == Len(_keys) = Len(_finalData)

\* finalData.filter(el => el.points !== null)
HasPoints(el) == el.points # Null
FilterNull(_finalData) == SelectSeq(_finalData, HasPoints)

\* JavaScript runs a handler to completion: no response is handled while
\* calculate is running.
HandlerMayRun == enginePc # "forEach"

\* getMatches: the response ended with this status and body (null: text that
\* JSON.parse rejects), then the callbacks of the exported function.  A
\* success starts one getMotionworks per key.
KeysEnd(status, body) ==
  /\ HandlerMayRun
  /\ keysState = "pending"
  /\ IF status # 200 \/ body = Null
       THEN /\ keysState' = "failed"
            /\ promise' = Settle(promise, "rejected")
            /\ UNCHANGED <<keys, fetch>>
       ELSE /\ keysState' = "ok"
            /\ keys' = body[1]
            /\ fetch' = [i \in 1..Len(body[1]) |->
                          [state |-> "pending", statusCode |-> 0]]
            /\ UNCHANGED promise
  /\ UNCHANGED <<finalData, value, mainPc>>
  /\ UNCHANGED engineVars

\* getMatches: the request's error, timeout or uncaughtException event.
KeysError ==
  /\ HandlerMayRun
  /\ keysState = "pending"
  /\ keysState' = "failed"
  /\ promise' = Settle(promise, "rejected")
  /\ UNCHANGED <<keys, fetch, finalData, value, mainPc>>
  /\ UNCHANGED engineVars

\* What getMotionworks does with an ended response: "reject", or "resolve"
\* with points (null, or the samples of the team).  A body is
\*   [kind |-> "text"]: text that JSON.parse rejects;
\*   [kind |-> "null"]: the JSON null;
\*   [kind |-> "object"]: an object with no alliances, such as an error
\*     message: reading body.alliances.red throws;
\*   [kind |-> "telemetry", team |-> whether an alliance lists the team,
\*    points |-> times, xs and ys zipped]: without the team, teamData[0] is
\*     undefined and mapping the first timestamp throws.
MotionworksResult(status, body) ==
  IF status # 200 /\ status # 404 THEN [settle |-> "reject", points |-> Null]
  ELSE IF body.kind = "text" THEN [settle |-> "reject", points |-> Null]
  ELSE IF body.kind = "null" THEN [settle |-> "resolve", points |-> Null]
  ELSE IF body.kind = "object" THEN [settle |-> "reject", points |-> Null]
  ELSE IF ~body.team /\ body.points # <<>>
    THEN [settle |-> "reject", points |-> Null]
  ELSE [settle |-> "resolve", points |-> Some(body.points)]

\* A variant of Collect whose error callback logs the error and does not
\* reject.
CollectLogOnly(i, status, result) ==
  IF result.settle = "reject"
    THEN /\ fetch' = [fetch EXCEPT ![i] =
                        [state |-> "rejected", statusCode |-> status]]
         /\ UNCHANGED <<promise, finalData, value>>
    ELSE LET pushed == Append(finalData, Record(keys[i], result.points))
         IN /\ fetch' = [fetch EXCEPT ![i] =
                           [state |-> "resolved", statusCode |-> status]]
            /\ finalData' = pushed
            /\ IF IsLastFetch(keys, pushed)
                 THEN /\ promise' = Settle(promise, "resolved")
                      /\ value' = IF promise = "pending"
                                    THEN FilterNull(pushed) ELSE value
                 ELSE UNCHANGED <<promise, value>>

\* The callbacks the exported function gave getMotionworks' promise for
\* keys[i], applied to the way that promise settled after a response with
\* this status (0: none).
Collect(i, status, result) ==
  IF result.settle = "reject"
    THEN /\ fetch' = [fetch EXCEPT ![i] =
                        [state |-> "rejected", statusCode |-> status]]
         /\ promise' = Settle(promise, "rejected")
         /\ UNCHANGED <<finalData, value>>
    ELSE LET pushed == Append(finalData, Record(keys[i], result.points))
         IN /\ fetch' = [fetch EXCEPT ![i] =
                           [state |-> "resolved", statusCode |-> status]]
            /\ finalData' = pushed
            /\ IF IsLastFetch(keys, pushed)
                 THEN /\ promise' = Settle(promise, "resolved")
                      /\ value' = IF promise = "pending"
                                    THEN FilterNull(pushed) ELSE value
                 ELSE UNCHANGED <<promise, value>>

\* getMotionworks for keys[i]: the response ended with this status and body.
MotionworksEnd(i, status, body) ==
  /\ HandlerMayRun
  /\ keysState = "ok"
  /\ i \in 1..Len(keys)
  /\ fetch[i].state = "pending"
  /\ Collect(i, status, MotionworksResult(status, body))
  /\ UNCHANGED <<keysState, keys, mainPc>>
  /\ UNCHANGED engineVars

\* getMotionworks for keys[i]: the request's error, timeout or
\* uncaughtException event.
MotionworksError(i) ==
  /\ HandlerMayRun
  /\ keysState = "ok"
  /\ i \in 1..Len(keys)
  /\ fetch[i].state = "pending"
  /\ Collect(i, 0, [settle |-> "reject", points |-> Null])
  /\ UNCHANGED <<keysState, keys, mainPc>>
  /\ UNCHANGED engineVars

\* index.js: the then callback calls calculate(data).
MainThen ==
  /\ HandlerMayRun
  /\ promise = "resolved"
  /\ mainPc = "waiting"
  /\ mainPc' = "calculate"
  /\ data' = value
  /\ idx' = 1
  /\ enginePc' = "forEach"
  /\ UNCHANGED <<keysState, keys, fetch, finalData, promise, value>>
  /\ UNCHANGED <<filteredPoints, distances, speeds, accelerations, stats,
                 charts, statsFile>>

\* index.js: the error callback logs the error.
MainError ==
  /\ HandlerMayRun
  /\ promise = "rejected"
  /\ mainPc = "waiting"
  /\ mainPc' = "error"
  /\ UNCHANGED <<keysState, keys, fetch, finalData, promise, value>>
  /\ UNCHANGED engineVars

\* ------------------------------------------------------------- inputs

\* A sample with both coordinates, at a position <<x, y>>.
Point(t, pos) == [time |-> t, x |-> Some(pos[1]), y |-> Some(pos[2])]

\* Match keys are numbered: keys 1..n stand for the n key strings of a team.
KeyList(n) == [i \in 1..n |-> i]

\* SpecKin: every sequence of up to MaxKinPoints samples that starts at the
\* origin at time 0 and goes on over three positions, consecutive times
\* 0.04 s (a duration that rounds to 0), 0.26 s (one that rounds to 0.3 s) or
\* 1 s apart.
KinPos == {<<0, 0>>, <<3, 4>>, <<6, 8>>}
KinSteps == {4, 26, 100}

RECURSIVE TimeAt(_, _)
TimeAt(steps, i) == IF i <= 1 THEN 0 ELSE TimeAt(steps, i - 1) + steps[i]

KinPoints(n, pos, steps) ==
  [i \in 1..n |-> Point(TimeAt(steps, i), IF i = 1 THEN <<0, 0>> ELSE pos[i])]

\* SpecEngine: a match is the first n samples of a track, sampled every 0.5 s
\* or 1 s, whole or with the x of its first and the y of its second sample
\* null.
TrackPos(track, i) ==
  IF track = "shuttle"
    THEN (IF i % 2 = 1 THEN <<0, 0>> ELSE <<6, 8>>)
    ELSE <<<<0, 0>>, <<0, 0>>, <<6, 8>>, <<18, 24>>, <<18, 24>>, <<6, 8>>>>
           [((i - 1) % 6) + 1]

EnginePoints(n, track, gaps, period) ==
  [i \in 1..n |->
    [time |-> (i - 1) * period,
     x |-> IF gaps /\ i = 1 THEN Null ELSE Some(TrackPos(track, i)[1]),
     y |-> IF gaps /\ i = 2 THEN Null ELSE Some(TrackPos(track, i)[2])]]

EngineInputs ==
  {EnginePoints(n, track, gaps, period) :
     n \in 0..MaxEnginePoints, track \in {"surge", "shuttle"},
     gaps \in BOOLEAN, period \in {50, 100}}

\* What a fetch collected for one match: the points of an engine input, or
\* points null.
EnginePayloads == {Null} \cup {Some(p) : p \in EngineInputs}

\* Spec: the responses of the telemetry endpoint.
GoodRun == EnginePoints(4, "surge", FALSE, 100)
ShortRun == EnginePoints(1, "surge", FALSE, 100)

MotionworksStatuses == {200, 404, 500}
MotionworksBodies ==
  {[kind |-> "text", team |-> FALSE, points |-> <<>>],
   [kind |-> "null", team |-> FALSE, points |-> <<>>],
   [kind |-> "object", team |-> FALSE, points |-> <<>>],
   [kind |-> "telemetry", team |-> FALSE, points |-> GoodRun],
   [kind |-> "telemetry", team |-> TRUE, points |-> GoodRun],
   [kind |-> "telemetry", team |-> TRUE, points |-> ShortRun]}

KeysStatuses == {200, 401}
KeysBodies == {Null} \cup {Some(KeyList(n)) : n \in 0..MaxKeys}

\* ----------------------------------------------------- specifications

\* The program as node starts it: the key request is in flight.
Init ==
  /\ keysState = "pending"
  /\ keys = <<>>
  /\ fetch = <<>>
  /\ finalData = <<>>
  /\ promise = "pending"
  /\ value = <<>>
  /\ mainPc = "waiting"
  /\ EngineIdle

Next ==
  \/ \E status \in KeysStatuses, body \in KeysBodies : KeysEnd(status, body)
  \/ KeysError
  \/ \E i \in 1..MaxKeys, status \in MotionworksStatuses,
        body \in MotionworksBodies : MotionworksEnd(i, status, body)
  \/ \E i \in 1..MaxKeys : MotionworksError(i)
  \/ MainThen
  \/ MainError
  \/ ProcessMatch
  \/ WriteStats

Spec == Init /\ [][Next]_vars

\* The state in which index.js has just called calculate with the dataset the
\* fetch resolved with, the fetch having collected these records.
CalculateCalled(records) ==
  /\ keysState = "ok"
  /\ keys = [i \in 1..Len(records) |-> records[i].match]
  /\ fetch = [i \in 1..Len(records) |->
                [state |-> "resolved", statusCode |-> 200]]
  /\ finalData = records
  /\ promise = "resolved"
  /\ value = FilterNull(records)
  /\ mainPc = "calculate"
  /\ data = FilterNull(records)
  /\ idx = 1
  /\ enginePc = "forEach"
  /\ filteredPoints = <<>>
  /\ distances = <<>>
  /\ speeds = <<>>
  /\ accelerations = <<>>
  /\ stats = StatsInit
  /\ charts = <<>>
  /\ statsFile = Null

\* calculate after a fetch of 1..MaxMatches matches that collected, for each
\* match, any of EnginePayloads.
InitEngine ==
  \E n \in 1..MaxMatches : \E payload \in [1..n -> EnginePayloads] :
    CalculateCalled([i \in 1..n |-> Record(i, payload[i])])

SpecEngine == InitEngine /\ [][NextEngine]_vars

\* calculate on one match, with every position sequence of KinPoints.
InitKin ==
  \E n \in 0..MaxKinPoints :
    \E pos \in [2..n -> KinPos], steps \in [2..n -> KinSteps] :
      CalculateCalled(<<Record(1, Some(KinPoints(n, pos, steps)))>>)

NextKin == ProcessMatch \/ WriteStats

SpecKin == InitKin /\ [][NextKin]_vars

\* ---------------------------------------------- claims: kinematics

\* The forEach callback has run for the match of SpecKin: filteredPoints,
\* distances, speeds and accelerations hold what it computed.
Derived == enginePc = "thrown" \/ idx > 1

StrictlyIncreasingTimes(points) ==
  \A i \in 1..(Len(points) - 1) : points[i].time < points[i + 1].time

AscendingTimes(points) ==
  \A i \in 1..(Len(points) - 1) : points[i].time <= points[i + 1].time

NonDecreasingTimestamps(xs) ==
  \A i \in 1..(Len(xs) - 1) : xs[i].timestamp <= xs[i + 1].timestamp

\* C1 as stated: for n >= 2 samples with strictly increasing times there are
\* exactly n-1 distances, n-2 speeds and n-3 accelerations.
C1_LengthsAsStated ==
  (Derived /\ Len(filteredPoints) >= 2 /\ StrictlyIncreasingTimes(filteredPoints))
    => /\ Len(distances) = Len(filteredPoints) - 1
       /\ Len(speeds) = Len(filteredPoints) - 2
       /\ Len(accelerations) = Len(filteredPoints) - 3

\* C1 amended: for n >= 2 samples with strictly increasing times there are
\* exactly n-1 distances, n-2 speeds, and n-3 accelerations when n >= 3 but
\* none when n = 2.
C1_Lengths ==
  (Derived /\ Len(filteredPoints) >= 2 /\ StrictlyIncreasingTimes(filteredPoints))
    => /\ Len(distances) = Len(filteredPoints) - 1
       /\ Len(speeds) = Len(filteredPoints) - 2
       /\ Len(accelerations) =
            IF Len(filteredPoints) >= 3 THEN Len(filteredPoints) - 3 ELSE 0

C1_Witness ==
  /\ Derived
  /\ Len(filteredPoints) = 5
  /\ StrictlyIncreasingTimes(filteredPoints)
  /\ Len(distances) = 4
  /\ Len(speeds) = 3
  /\ Len(accelerations) = 2

\* C7: for samples in ascending time order, the timestamps of the distances,
\* of the speeds and of the accelerations are non-decreasing, and the k-th
\* distance carries the time of sample k, the k-th speed the timestamp of
\* distance k and the k-th acceleration the timestamp of speed k.
C7_Timestamps ==
  (Derived /\ AscendingTimes(filteredPoints))
    => /\ NonDecreasingTimestamps(distances)
       /\ NonDecreasingTimestamps(speeds)
       /\ NonDecreasingTimestamps(accelerations)
       /\ \A k \in 1..Len(distances) :
            distances[k].timestamp = filteredPoints[k].time
       /\ \A k \in 1..Len(speeds) :
            speeds[k].timestamp = distances[k].timestamp
       /\ \A k \in 1..Len(accelerations) :
            accelerations[k].timestamp = speeds[k].timestamp

C7_Witness ==
  /\ Derived
  /\ Len(accelerations) = 2
  /\ accelerations[1].timestamp = filteredPoints[1].time
  /\ accelerations[2].timestamp = filteredPoints[2].time
  /\ accelerations[1].timestamp < accelerations[2].timestamp

\* C8 as stated: every derivation stage returns a sequence strictly shorter
\* than its input.
C8_ShorterAsStated ==
  Derived
    => /\ Len(distances) < Len(filteredPoints)
       /\ Len(speeds) < Len(distances)
       /\ Len(accelerations) < Len(speeds)

\* One stage's output against its input, as C8 is amended.
OneShorter(input, output) ==
  IF input = <<>> THEN output = <<>> ELSE Len(output) = Len(input) - 1

\* C8 amended: every derivation stage returns, for a non-empty input, a
\* sequence exactly one element shorter than its input, and for an empty input
\* an empty sequence.
C8_Shorter ==
  Derived
    => /\ OneShorter(filteredPoints, distances)
       /\ OneShorter(distances, speeds)
       /\ OneShorter(speeds, accelerations)

C8_Witness ==
  /\ Derived
  /\ Len(filteredPoints) = 2
  /\ Len(distances) = 1
  /\ speeds = <<>>
  /\ accelerations = <<>>

\* s is Math.round(100 * distance / duration) / 100 in hundredths, for a
\* distance in feet and a duration in tenths of a second: the integer within
\* a half of 1000 * distance / time, the upper one at a half; Infinity for a
\* distance over no time, NaN for no distance over no time.
IsRoundedSpeed(s, distance, time) ==
  IF time > 0
    THEN /\ s.k = "fin"
         /\ 2 * s.v * time - time <= 2000 * distance
         /\ 2000 * distance < 2 * s.v * time + time
    ELSE IF distance = 0 THEN s = NaN ELSE s = PosInf

ScenarioA == <<Point(0, <<0, 0>>), Point(100, <<3, 4>>), Point(200, <<3, 4>>)>>
ScenarioB == <<Point(0, <<0, 0>>), Point(100, <<0, 0>>), Point(200, <<6, 8>>)>>

\* C9: calculateSpeeds emits one sample for each distance that has a next
\* one, and none for the last: its speed is the distance over the rounded
\* duration, rounded to two decimals, and its timestamp the distance's.
\* Samples (0,0,0), (1,3,4), (2,3,4) give distances 5 at 0 s and 0 at 1 s, each
\* over 1 s, the speed 5 at 0 s and no acceleration; samples (0,0,0), (1,0,0),
\* (2,6,8) give distances 0 and 10, the speed 0 at 0 s and no acceleration.
C9_Speeds ==
  Derived
    => /\ Len(speeds) = IF distances = <<>> THEN 0 ELSE Len(distances) - 1
       /\ \A i \in 1..Len(speeds) :
            /\ speeds[i].timestamp = distances[i].timestamp
            /\ IsRoundedSpeed(speeds[i].speed, distances[i].distance,
                              distances[i].time)
       /\ filteredPoints = ScenarioA
            => /\ distances = <<[timestamp |-> 0, time |-> 10, distance |-> 5],
                                [timestamp |-> 100, time |-> 10, distance |-> 0]>>
               /\ speeds = <<[timestamp |-> 0, speed |-> Fin(500)]>>
               /\ accelerations = <<>>
       /\ filteredPoints = ScenarioB
            => /\ distances = <<[timestamp |-> 0, time |-> 10, distance |-> 0],
                                [timestamp |-> 100, time |-> 10, distance |-> 10]>>
               /\ speeds = <<[timestamp |-> 0, speed |-> Fin(0)]>>
               /\ accelerations = <<>>

\* A speed whose quotient needed rounding: 5 feet over 0.26 s, a duration that
\* rounds to 0.3 s, is 16.67 feet per second.
C9_Witness ==
  /\ Derived
  /\ Len(distances) = 2
  /\ distances[1].distance = 5
  /\ distances[1].time = 3
  /\ speeds = <<[timestamp |-> 0, speed |-> Fin(1667)]>>

\* -------------------------------------------------- claims: engine

\* calculate has ended: it returned, or an exception left it.
Ended == enginePc \in {"done", "thrown"}

\* The samples of a match that have both coordinates.
UsableCount(match) == Len(FilterPoints(match.points[1]))

MatchField(xs) == [i \in 1..Len(xs) |-> xs[i].match]

HasAccelerationSample(match) == UsableCount(match) >= 4

\* C2 as stated: in a batch whose matches each have fewer than 2 usable samples
\* or enough of them for an acceleration sample, with at least one of each, a
\* match with fewer than 2 usable samples has no entry in individual_matches,
\* every other match has one, in the order of the batch, and the global
\* summary is computed over them and written.
C2_ShortMatchExcluded ==
  (/\ Ended
   /\ \E i \in 1..Len(data) : UsableCount(data[i]) < 2
   /\ \E i \in 1..Len(data) : HasAccelerationSample(data[i])
   /\ \A i \in 1..Len(data) :
        UsableCount(data[i]) < 2 \/ HasAccelerationSample(data[i]))
    => /\ enginePc = "done"
       /\ MatchField(stats.individual_matches)
            = MatchField(SelectSeq(data, HasAccelerationSample))
       /\ statsFile = Some(stats)

\* g is the greatest of xs, as Math.max has it: NaN when one of them is NaN.
IsMaxOf(g, xs) ==
  IF \E i \in 1..Len(xs) : xs[i].k = "nan"
    THEN g = NaN
    ELSE /\ \E i \in 1..Len(xs) : xs[i] = g
         /\ \A i \in 1..Len(xs) : ~Less(g, xs[i])

\* g is the least of xs, as Math.min has it.
IsMinOf(g, xs) ==
  IF \E i \in 1..Len(xs) : xs[i].k = "nan"
    THEN g = NaN
    ELSE /\ \E i \in 1..Len(xs) : xs[i] = g
         /\ \A i \in 1..Len(xs) : ~Less(xs[i], g)

RECURSIVE SumOfFinite(_)
SumOfFinite(xs) == IF xs = <<>> THEN 0 ELSE SumOfFinite(Tail(xs)) + Head(xs).v

\* The quotient q is the arithmetic mean of xs: of finite values, their sum
\* over their number; with an infinite value among them, that infinity; with
\* both infinities or a NaN, NaN.
IsMeanOf(q, xs) ==
  LET nan == \E i \in 1..Len(xs) : xs[i].k = "nan"
      pos == \E i \in 1..Len(xs) : xs[i] = PosInf
      neg == \E i \in 1..Len(xs) : xs[i] = NegInf
  IN IF nan \/ (pos /\ neg) THEN q.k = "nan"
     ELSE IF pos THEN q.k = "inf" /\ q.v = 1
     ELSE IF neg THEN q.k = "inf" /\ q.v = -1
     ELSE /\ q.k = "fin"
          /\ q.d > 0
          /\ q.v * Len(xs) = q.d * SumOfFinite(xs)

\* The quotient q has the value of the number x.
SameValue(q, x) ==
  /\ q.k = x.k
  /\ q.k = "fin" => q.d # 0 /\ q.v = q.d * x.v
  /\ q.k = "inf" => q.v = x.v

\* C6: when calculate has computed the global summary, over the per-match
\* summaries m: maxSpeed_fps is the maximum and avgMaxSpeed_fps the mean of
\* their maxSpeed_fps, avgSpeed_fps the mean of their avgSpeed_fps,
\* maxAccel_fpsps the maximum and avgMaxAccel_fpsps the mean of their
\* maxAccel_fpsps, maxBrake_fpsps the minimum and avgMaxBrake_fpsps the mean of
\* their maxBrake_fpsps.  Max speeds 10 and 20 give 20 and 15, and for one
\* summary every global field has that summary's value.
C6_GlobalSummary ==
  enginePc = "done"
    => LET m == stats.individual_matches
       IN /\ m # <<>>
          /\ IsMaxOf(stats.maxSpeed_fps[1], MaxSpeedField(m))
          /\ IsMeanOf(stats.avgMaxSpeed_fps[1], MaxSpeedField(m))
          /\ IsMeanOf(stats.avgSpeed_fps[1], AvgSpeedField(m))
          /\ IsMaxOf(stats.maxAccel_fpsps[1], MaxAccelField(m))
          /\ IsMeanOf(stats.avgMaxAccel_fpsps[1], MaxAccelField(m))
          /\ IsMinOf(stats.maxBrake_fpsps[1], MaxBrakeField(m))
          /\ IsMeanOf(stats.avgMaxBrake_fpsps[1], MaxBrakeField(m))
          /\ MaxSpeedField(m) = <<Fin(1000), Fin(2000)>>
               => /\ stats.maxSpeed_fps[1] = Fin(2000)
                  /\ SameValue(stats.avgMaxSpeed_fps[1], Fin(1500))
          /\ Len(m) = 1
               => /\ stats.maxSpeed_fps[1] = m[1].maxSpeed_fps
                  /\ SameValue(stats.avgMaxSpeed_fps[1], m[1].maxSpeed_fps)
                  /\ SameValue(stats.avgSpeed_fps[1], m[1].avgSpeed_fps)
                  /\ stats.maxAccel_fpsps[1] = m[1].maxAccel_fpsps
                  /\ SameValue(stats.avgMaxAccel_fpsps[1], m[1].maxAccel_fpsps)
                  /\ stats.maxBrake_fpsps[1] = m[1].maxBrake_fpsps
                  /\ SameValue(stats.avgMaxBrake_fpsps[1], m[1].maxBrake_fpsps)
          /\ statsFile = Some(stats)

\* Two matches with max speeds 10 and 20 and different finite accelerations,
\* summarized: 20 and 15.
C6_Witness ==
  /\ enginePc = "done"
  /\ MaxSpeedField(stats.individual_matches) = <<Fin(1000), Fin(2000)>>
  /\ stats.maxSpeed_fps = Some(Fin(2000))
  /\ stats.avgMaxSpeed_fps = Some(Ratio(3000, 2))
  /\ stats.maxAccel_fpsps[1].k = "fin"
  /\ Less(stats.maxBrake_fpsps[1], stats.maxAccel_fpsps[1])

\* --------------------------------------------------- claims: fetch

AllFetchesSettled == \A i \in 1..Len(keys) : fetch[i].state # "pending"

\* Where calculate is called, every fetch has resolved and its record is in
\* finalData, and the dataset is the records with points, in finalData's order.
FullDataset ==
  /\ \A i \in 1..Len(keys) : fetch[i].state = "resolved"
  /\ Len(finalData) = Len(keys)
  /\ \A i \in 1..Len(keys) :
       \E j \in 1..Len(finalData) : finalData[j].match = keys[i]
  /\ data = FilterNull(finalData)
  /\ \A j \in 1..Len(finalData) :
       finalData[j].points # Null
         => \E k \in 1..Len(data) : data[k] = finalData[j]

\* C3: calculate is called only when every one of the per-match fetches has
\* completed and its record has been collected, with the full collected set
\* (every record with non-null points); and it is called at most once: once
\* called, its dataset stays and it is not entered again.
C3_EngineAfterAllFetches ==
  /\ [](mainPc = "calculate" => FullDataset)
  /\ [][mainPc = "calculate"
          => /\ mainPc' = "calculate"
             /\ data' = data
             /\ (enginePc # "forEach" => enginePc' # "forEach")]_vars

\* Three fetches that completed in another order than that of the keys, one of
\* them with points null, and calculate called with the other two.
C3_Witness ==
  /\ mainPc = "calculate"
  /\ Len(keys) = 3
  /\ finalData[1].match = 3
  /\ finalData[2].points = Null
  /\ Len(data) = 2

\* C4: when the key fetch has failed or a per-match fetch has failed, the
\* promise of the fetch function is rejected, calculate has not been called
\* and no stats file is written.
C4_FailureAborts ==
  (keysState = "failed" \/ \E i \in 1..Len(keys) : fetch[i].state = "rejected")
    => /\ promise = "rejected"
       /\ mainPc # "calculate"
       /\ enginePc = "idle"
       /\ statsFile = Null

\* A fetch failed on a status, the others completed after it, and main logged
\* the error.
C4_Witness ==
  /\ Len(keys) = 3
  /\ fetch[1] = [state |-> "rejected", statusCode |-> 500]
  /\ fetch[2].state = "resolved"
  /\ fetch[3].state = "resolved"
  /\ Len(finalData) = 2
  /\ mainPc = "error"

IsGoodRun(el) == el.points = Some(GoodRun)

\* C5 as stated: a fetch that got a 404 response does not fail; a record with
\* points null is not in the dataset handed to calculate, nor charted, nor in
\* individual_matches, every record with points is in that dataset, and a run
\* whose other matches all have a good run ends with the stats written.
C5_NoTelemetryIsNoError ==
  /\ \A i \in 1..Len(keys) :
       fetch[i].statusCode = 404 => fetch[i].state # "rejected"
  /\ mainPc = "calculate"
       => \A j \in 1..Len(finalData) :
            IF finalData[j].points = Null
              THEN /\ \A k \in 1..Len(data) :
                        data[k].match # finalData[j].match
                   /\ \A k \in 1..Len(charts) : charts[k] # finalData[j].match
                   /\ \A k \in 1..Len(stats.individual_matches) :
                        stats.individual_matches[k].match # finalData[j].match
              ELSE \E k \in 1..Len(data) : data[k] = finalData[j]
  /\ (/\ Ended
      /\ \E j \in 1..Len(finalData) : finalData[j].points = Null
      /\ \A j \in 1..Len(finalData) :
           finalData[j].points = Null \/ IsGoodRun(finalData[j]))
       => enginePc = "done" /\ statsFile # Null

\* C10 as stated, for the step that settles the last fetch: once the key
\* fetch has succeeded and every per-match fetch has settled, the promise of
\* the fetch function has settled.
C10_PromiseSettles ==
  (keysState = "ok" /\ AllFetchesSettled) => promise # "pending"

=============================================================================
